---- MODULE Spec2Model ----
(***************************************************************************)
(* Model of presidentialElection.cpp: the CSV loader, the menu loop of     *)
(* main and the five query handlers.                                       *)
(*                                                                         *)
(* A std::string is a sequence of character codes (ASCII), so that         *)
(* ::toupper, string::find, getline and stoi are modelled by what they do  *)
(* to the characters.  Positions are 1-based here; string::find's          *)
(* "not found" value is npos.                                              *)
(***************************************************************************)
EXTENDS Integers, Sequences, FiniteSets, TLC

VARIABLES
    fileOpened,       \* ifstream file(filename) could open the file
    lines,            \* the file's lines, each five comma-separated fields
    endsWithNewline,  \* the file's last line is terminated by '\n'
    tiePriority,      \* how this build's std::sort orders equivalent elements
    votes,            \* main's vector<Votes> votes, the record store
    loaded,           \* history: the value readVotesFromFile returned
    pc,               \* main's position: start, menu, terminated, exited
    choice,           \* the last menu choice read by cin >> choice
    arg,              \* the last line read by the handler's getline(cin, ...)
    out               \* what the last handler wrote to cout

vars == <<fileOpened, lines, endsWithNewline, tiePriority, votes, loaded,
          pc, choice, arg, out>>

-----------------------------------------------------------------------------
(* Bounds of the model *)

\* the longest input file, in lines
MaxRecords == 3

-----------------------------------------------------------------------------
(* Program constants *)

NUM_STATES == 51

STATES == <<
    <<65,76,65,66,65,77,65>>,
    <<65,76,65,83,75,65>>,
    <<65,82,73,90,79,78,65>>,
    <<65,82,75,65,78,83,65,83>>,
    <<67,65,76,73,70,79,82,78,73,65>>,
    <<67,79,76,79,82,65,68,79>>,
    <<67,79,78,78,69,67,84,73,67,85,84>>,
    <<68,69,76,65,87,65,82,69>>,
    <<70,76,79,82,73,68,65>>,
    <<71,69,79,82,71,73,65>>,
    <<72,65,87,65,73,73>>,
    <<73,68,65,72,79>>,
    <<73,76,76,73,78,79,73,83>>,
    <<73,78,68,73,65,78,65>>,
    <<73,79,87,65>>,
    <<75,65,78,83,65,83>>,
    <<75,69,78,84,85,67,75,89>>,
    <<76,79,85,73,83,73,65,78,65>>,
    <<77,65,73,78,69>>,
    <<77,65,82,89,76,65,78,68>>,
    <<77,65,83,83,65,67,72,85,83,69,84,84,83>>,
    <<77,73,67,72,73,71,65,78>>,
    <<77,73,78,78,69,83,79,84,65>>,
    <<77,73,83,83,73,83,83,73,80,80,73>>,
    <<77,73,83,83,79,85,82,73>>,
    <<77,79,78,84,65,78,65>>,
    <<78,69,66,82,65,83,75,65>>,
    <<78,69,86,65,68,65>>,
    <<78,69,87,32,72,65,77,80,83,72,73,82,69>>,
    <<78,69,87,32,74,69,82,83,69,89>>,
    <<78,69,87,32,77,69,88,73,67,79>>,
    <<78,69,87,32,89,79,82,75>>,
    <<78,79,82,84,72,32,67,65,82,79,76,73,78,65>>,
    <<78,79,82,84,72,32,68,65,75,79,84,65>>,
    <<79,72,73,79>>,
    <<79,75,76,65,72,79,77,65>>,
    <<79,82,69,71,79,78>>,
    <<80,69,78,78,83,89,76,86,65,78,73,65>>,
    <<82,72,79,68,69,32,73,83,76,65,78,68>>,
    <<83,79,85,84,72,32,67,65,82,79,76,73,78,65>>,
    <<83,79,85,84,72,32,68,65,75,79,84,65>>,
    <<84,69,78,78,69,83,83,69,69>>,
    <<84,69,88,65,83>>,
    <<85,84,65,72>>,
    <<86,69,82,77,79,78,84>>,
    <<86,73,82,71,73,78,73,65>>,
    <<87,65,83,72,73,78,71,84,79,78>>,
    <<87,65,83,72,73,78,71,84,79,78,32,68,67>>,
    <<87,69,83,84,32,86,73,82,71,73,78,73,65>>,
    <<87,73,83,67,79,78,83,73,78>>,
    <<87,89,79,77,73,78,71>>
>>

\* the delimiters handed to getline, ',' and the default '\n'
COMMA == 44
NEWLINE == 10

\* std::round(summary.totalVotes / 150000.0)
VOTES_PER_BAR == 150000

\* the largest int stoi returns; beyond it stoi throws std::out_of_range
INT_MAX == 2147483647

\* string::npos, with positions counted from 1
npos == 0

-----------------------------------------------------------------------------
(* Strings *)

EmptyString == <<>>

\* ::toupper in the "C" locale
ToUpperChar(c) == IF c \in 97..122 THEN c - 32 ELSE c

\* string toUpper(string str): transform with ::toupper
toUpper(str) == [i \in 1..Len(str) |-> ToUpperChar(str[i])]

\* does needle occur in hay starting at position p
MatchesAt(hay, needle, p) ==
    /\ p + Len(needle) - 1 <= Len(hay)
    /\ \A k \in 1..Len(needle) : hay[p + k - 1] = needle[k]

\* a plausible slip: an empty needle counts as not found
Find_EmptyNotFound(hay, needle) ==
    LET hits == {p \in 1..(Len(hay) + 1) : MatchesAt(hay, needle, p)}
    IN  IF hits = {} \/ needle = EmptyString THEN npos
        ELSE CHOOSE p \in hits : \A q \in hits : p <= q

\* hay.find(needle): the first position where needle occurs, or npos
Find(hay, needle) ==
    LET hits == {p \in 1..(Len(hay) + 1) : MatchesAt(hay, needle, p)}
    IN  IF hits = {} THEN npos
        ELSE CHOOSE p \in hits : \A q \in hits : p <= q

IsSpace(c) == c = 32 \/ c \in 9..13
IsDigit(c) == c \in 48..57

\* the value of the decimal digits str[i..j]
RECURSIVE DigitsValue(_, _, _)
DigitsValue(str, i, j) ==
    IF i > j THEN 0 ELSE 10 * DigitsValue(str, i, j - 1) + (str[j] - 48)

\* std::stoi(str): skips leading white space, takes an optional sign and the
\* longest run of digits, ignores what follows; throws std::invalid_argument
\* when there is no digit and std::out_of_range when the value is no int
Stoi(str) ==
    LET n     == Len(str)
        nonsp == {i \in 1..n : ~IsSpace(str[i])}
        s     == IF nonsp = {} THEN n + 1
                 ELSE CHOOSE i \in nonsp : \A j \in nonsp : i <= j
        neg   == s <= n /\ str[s] = 45
        d     == IF s <= n /\ str[s] \in {43, 45} THEN s + 1 ELSE s
        stops == {i \in d..n : ~IsDigit(str[i])}
        e     == IF stops = {} THEN n
                 ELSE (CHOOSE i \in stops : \A j \in stops : i <= j) - 1
        mag   == DigitsValue(str, d, e)
        value == IF neg THEN 0 - mag ELSE mag
    IN  IF e < d THEN [thrown |-> TRUE, value |-> 0]
        ELSE IF value > INT_MAX \/ value < 0 - INT_MAX - 1
             THEN [thrown |-> TRUE, value |-> 0]
        ELSE [thrown |-> FALSE, value |-> value]

-----------------------------------------------------------------------------
(* class Votes and class CandidateSummary *)

\* Votes(string s, string c, string can, string p, int v)
Votes(s, c, can, p, v) ==
    [state |-> s, county |-> c, candidate |-> can, party |-> p, voteCount |-> v]

\* CandidateSummary(string n, string p): totalVotes starts at 0
CandidateSummary(n, p) == [name |-> n, party |-> p, totalVotes |-> 0]

\* a plausible slip in operator<: ascending order
CandidateLess_Ascending(a, b) == a.totalVotes < b.totalVotes

\* bool CandidateSummary::operator<(other)
CandidateLess(a, b) == a.totalVotes > b.totalVotes

-----------------------------------------------------------------------------
(* readVotesFromFile *)

\* the characters of a file made of the given lines
RECURSIVE FileText(_, _)
FileText(ls, nl) ==
    IF ls = <<>> THEN <<>>
    ELSE LET l == Head(ls)
             text == l[1] \o <<COMMA>> \o l[2] \o <<COMMA>> \o l[3]
                     \o <<COMMA>> \o l[4] \o <<COMMA>> \o l[5]
         IN  IF Len(ls) = 1
             THEN (IF nl THEN text \o <<NEWLINE>> ELSE text)
             ELSE text \o <<NEWLINE>> \o FileText(Tail(ls), nl)

\* the stream after ifstream file(filename)
OpenStream(opened) == [pos |-> 1, eof |-> FALSE, fail |-> ~opened]

\* getline(file, str, delim) on a stream at st over text: the stream and the
\* string afterwards.  A stream that is not good() only gets failbit and the
\* string is left as it was; otherwise characters are taken up to the
\* delimiter (consumed, not stored) or to the end of the file (eofbit, and
\* failbit when nothing was taken).
Getline(text, st, str, delim) ==
    IF st.eof \/ st.fail
    THEN [st |-> [st EXCEPT !.fail = TRUE], str |-> str]
    ELSE LET ds   == {p \in st.pos..Len(text) : text[p] = delim}
             stop == IF ds = {} THEN Len(text) + 1
                     ELSE CHOOSE p \in ds : \A q \in ds : p <= q
         IN  IF stop <= Len(text)
             THEN [st  |-> [pos |-> stop + 1, eof |-> FALSE, fail |-> FALSE],
                   str |-> SubSeq(text, st.pos, stop - 1)]
             ELSE [st  |-> [pos |-> Len(text) + 1, eof |-> TRUE,
                            fail |-> st.pos > Len(text)],
                   str |-> SubSeq(text, st.pos, Len(text))]

\* a plausible slip in the loader: a line whose count does not parse ends
\* the loop and the records read so far are returned
RECURSIVE ReadLoop_KeepsPartial(_, _, _, _)
ReadLoop_KeepsPartial(text, st, acc, f) ==
    IF st.eof THEN [thrown |-> FALSE, votes |-> acc]
    ELSE LET g1 == Getline(text, st, f.state, COMMA)
         IN  IF g1.st.eof THEN [thrown |-> FALSE, votes |-> acc]
             ELSE LET g2 == Getline(text, g1.st, f.county, COMMA)
                      g3 == Getline(text, g2.st, f.candidate, COMMA)
                      g4 == Getline(text, g3.st, f.party, COMMA)
                      g5 == Getline(text, g4.st, f.votesStr, NEWLINE)
                      n  == Stoi(g5.str)
                  IN  IF n.thrown THEN [thrown |-> FALSE, votes |-> acc]
                      ELSE ReadLoop_KeepsPartial(text, g5.st,
                               Append(acc, Votes(g1.str, g2.str, g3.str,
                                                 g4.str, n.value)),
                               [state |-> g1.str, county |-> g2.str,
                                candidate |-> g3.str, party |-> g4.str,
                                votesStr |-> g5.str])

\* the while (!file.eof()) loop; f holds the five local strings, which keep
\* their value across iterations.  thrown: stoi threw out of the function.
RECURSIVE ReadLoop(_, _, _, _)
ReadLoop(text, st, acc, f) ==
    IF st.eof THEN [thrown |-> FALSE, votes |-> acc]
    ELSE LET g1 == Getline(text, st, f.state, COMMA)
         IN  IF g1.st.eof THEN [thrown |-> FALSE, votes |-> acc]
             ELSE LET g2 == Getline(text, g1.st, f.county, COMMA)
                      g3 == Getline(text, g2.st, f.candidate, COMMA)
                      g4 == Getline(text, g3.st, f.party, COMMA)
                      g5 == Getline(text, g4.st, f.votesStr, NEWLINE)
                      n  == Stoi(g5.str)
                  IN  IF n.thrown THEN [thrown |-> TRUE, votes |-> <<>>]
                      ELSE ReadLoop(text, g5.st,
                               Append(acc, Votes(g1.str, g2.str, g3.str,
                                                 g4.str, n.value)),
                               [state |-> g1.str, county |-> g2.str,
                                candidate |-> g3.str, party |-> g4.str,
                                votesStr |-> g5.str])

\* vector<Votes> readVotesFromFile(filename)
readVotesFromFile(opened, ls, nl) ==
    ReadLoop(FileText(ls, nl), OpenStream(opened), <<>>,
             [state |-> EmptyString, county |-> EmptyString,
              candidate |-> EmptyString, party |-> EmptyString,
              votesStr |-> EmptyString])

-----------------------------------------------------------------------------
(* std::sort *)

\* std::sort leaves the order of equivalent elements unspecified; a build
\* orders them in some fixed way.  prio ranks the positions of the input:
\* of two equivalent elements the one at the position of lower rank comes
\* first.  The identity ranking is the order a stable sort would give.
SortsBefore(s, prio, i, j) ==
    \/ CandidateLess(s[i], s[j])
    \/ /\ ~CandidateLess(s[j], s[i])
       /\ prio[i] < prio[j]

\* sort(summaries.begin(), summaries.end())
Sort(s, prio) ==
    LET n == Len(s)
        rank(i) == 1 + Cardinality({j \in 1..n : SortsBefore(s, prio, j, i)})
    IN  [r \in 1..n |-> s[CHOOSE i \in 1..n : rank(i) = r]]

-----------------------------------------------------------------------------
(* getCandidateSummaries *)

\* a plausible slip in getCandidateSummaries: = where += was meant
AddVote_NoAccumulate(summaries, vote) ==
    LET hits == {k \in 1..Len(summaries) : summaries[k].name = vote.candidate}
    IN  IF hits # {}
        THEN LET k == CHOOSE h \in hits : \A g \in hits : h <= g
             IN  [summaries EXCEPT ![k].totalVotes = vote.voteCount]
        ELSE Append(summaries,
                    [CandidateSummary(vote.candidate, vote.party)
                        EXCEPT !.totalVotes = vote.voteCount])

\* the body of the loop over votes: add to the summary of that name, or
\* append a new summary holding the record's party and votes
AddVote(summaries, vote) ==
    LET hits == {k \in 1..Len(summaries) : summaries[k].name = vote.candidate}
    IN  IF hits # {}
        THEN LET k == CHOOSE h \in hits : \A g \in hits : h <= g
             IN  [summaries EXCEPT ![k].totalVotes = @ + vote.voteCount]
        ELSE Append(summaries,
                    [CandidateSummary(vote.candidate, vote.party)
                        EXCEPT !.totalVotes = vote.voteCount])

RECURSIVE SummariesLoop(_, _, _)
SummariesLoop(vs, i, summaries) ==
    IF i > Len(vs) THEN summaries
    ELSE SummariesLoop(vs, i + 1, AddVote(summaries, vs[i]))

\* vector<CandidateSummary> getCandidateSummaries(votes)
getCandidateSummaries(vs, prio) == Sort(SummariesLoop(vs, 1, <<>>), prio)

-----------------------------------------------------------------------------
(* showDataOverview *)

RECURSIVE OverviewLoop(_, _, _)
OverviewLoop(vs, i, totalVotes) ==
    IF i > Len(vs) THEN totalVotes
    ELSE OverviewLoop(vs, i + 1, totalVotes + vs[i].voteCount)

-----------------------------------------------------------------------------
(* showStateResults *)

\* a plausible slip in showStateResults: the stored state is upper-cased too
AddStateVote_UpperCasesStored(stateSummaries, vote, state) ==
    IF toUpper(vote.state) = state
    THEN LET hits == {k \in 1..Len(stateSummaries) :
                         stateSummaries[k].name = vote.candidate}
         IN  IF hits # {}
             THEN LET k == CHOOSE h \in hits : \A g \in hits : h <= g
                  IN  [stateSummaries EXCEPT ![k].totalVotes = @ + vote.voteCount]
             ELSE Append(stateSummaries,
                         [CandidateSummary(vote.candidate, vote.party)
                             EXCEPT !.totalVotes = vote.voteCount])
    ELSE stateSummaries

\* the body of the loop over votes: records of another state are skipped
AddStateVote(stateSummaries, vote, state) ==
    IF vote.state = state
    THEN LET hits == {k \in 1..Len(stateSummaries) :
                         stateSummaries[k].name = vote.candidate}
         IN  IF hits # {}
             THEN LET k == CHOOSE h \in hits : \A g \in hits : h <= g
                  IN  [stateSummaries EXCEPT ![k].totalVotes = @ + vote.voteCount]
             ELSE Append(stateSummaries,
                         [CandidateSummary(vote.candidate, vote.party)
                             EXCEPT !.totalVotes = vote.voteCount])
    ELSE stateSummaries

RECURSIVE StateSummariesLoop(_, _, _, _)
StateSummariesLoop(vs, i, state, stateSummaries) ==
    IF i > Len(vs) THEN stateSummaries
    ELSE StateSummariesLoop(vs, i + 1, state,
                            AddStateVote(stateSummaries, vs[i], state))

\* the sorted stateSummaries for the line the user typed
StateSummaries(vs, stateInput, prio) ==
    Sort(StateSummariesLoop(vs, 1, toUpper(stateInput), <<>>), prio)

\* int bars = round(summary.totalVotes / 150000.0): half away from zero
Bars(totalVotes) ==
    IF totalVotes >= 0
    THEN (2 * totalVotes + VOTES_PER_BAR) \div (2 * VOTES_PER_BAR)
    ELSE 0 - ((2 * (0 - totalVotes) + VOTES_PER_BAR) \div (2 * VOTES_PER_BAR))

-----------------------------------------------------------------------------
(* showCandidateResults *)

\* a plausible slip in the resolution loop: the candidate is not upper-cased
RECURSIVE ResolveLoop_CaseSensitive(_, _, _)
ResolveLoop_CaseSensitive(vs, i, candidateSearch) ==
    IF i > Len(vs) THEN EmptyString
    ELSE IF Find(vs[i].candidate, candidateSearch) # npos
         THEN vs[i].candidate
         ELSE ResolveLoop_CaseSensitive(vs, i + 1, candidateSearch)

\* candidateName: the candidate of the first record whose upper-cased
\* candidate contains the upper-cased search term, else the empty string
RECURSIVE ResolveLoop(_, _, _)
ResolveLoop(vs, i, candidateSearch) ==
    IF i > Len(vs) THEN EmptyString
    ELSE IF Find(toUpper(vs[i].candidate), candidateSearch) # npos
         THEN vs[i].candidate
         ELSE ResolveLoop(vs, i + 1, candidateSearch)

ResolveCandidate(vs, searchInput) == ResolveLoop(vs, 1, toUpper(searchInput))

\* stateResults(NUM_STATES) with every row set to (STATES[i], 0, 0)
InitialStateResults ==
    [i \in 1..NUM_STATES |->
        [state |-> STATES[i], candidateVotes |-> 0, totalVotes |-> 0]]

\* a plausible slip in the tally: the record's state is upper-cased first
TallyVote_UpperCased(stateResults, vote, candidateName) ==
    LET hits == {i \in 1..NUM_STATES : toUpper(vote.state) = STATES[i]}
    IN  IF hits = {} THEN stateResults
        ELSE LET i == CHOOSE h \in hits : \A g \in hits : h <= g
             IN  [stateResults EXCEPT
                   ![i].candidateVotes =
                       IF vote.candidate = candidateName
                       THEN @ + vote.voteCount ELSE @,
                   ![i].totalVotes = @ + vote.voteCount]

\* the inner loop over STATES for one record: the first i with
\* vote.getState() == STATES[i] gets the votes; no such i, no change
TallyVote(stateResults, vote, candidateName) ==
    LET hits == {i \in 1..NUM_STATES : vote.state = STATES[i]}
    IN  IF hits = {} THEN stateResults
        ELSE LET i == CHOOSE h \in hits : \A g \in hits : h <= g
             IN  [stateResults EXCEPT
                   ![i].candidateVotes =
                       IF vote.candidate = candidateName
                       THEN @ + vote.voteCount ELSE @,
                   ![i].totalVotes = @ + vote.voteCount]

RECURSIVE TallyLoop(_, _, _, _)
TallyLoop(vs, i, candidateName, stateResults) ==
    IF i > Len(vs) THEN stateResults
    ELSE TallyLoop(vs, i + 1, candidateName,
                   TallyVote(stateResults, vs[i], candidateName))

\* the greatest common divisor of a >= 0 and b > 0
RECURSIVE GCD(_, _)
GCD(a, b) == IF b = 0 THEN a ELSE GCD(b, a % b)

\* the fraction num / den, den > 0, in lowest terms
Fraction(num, den) ==
    LET g == GCD(IF num < 0 THEN 0 - num ELSE num, den)
    IN  [num |-> num \div g, den |-> den \div g]

\* double percentage: the value (100.0 * candidateVotes) / totalVotes, or 0.0,
\* kept as the exact fraction
ZeroPercentage == [num |-> 0, den |-> 1]
PercentageOf(result) ==
    IF result.totalVotes > 0
    THEN Fraction(100 * result.candidateVotes, result.totalVotes)
    ELSE ZeroPercentage

\* percentage > bestPercentage
PercentageGreater(p, q) == p.num * q.den > q.num * p.den

\* a plausible slip in the best-state loop: >= where > was meant
TrackBest_NotStrict(best, result) ==
    IF result.totalVotes > 0
       /\ ~PercentageGreater(best.bestPercentage, PercentageOf(result))
    THEN [bestPercentage |-> PercentageOf(result), bestState |-> result.state]
    ELSE best

\* the body of the loop over stateResults that tracks the best state
TrackBest(best, result) ==
    IF result.totalVotes > 0
       /\ PercentageGreater(PercentageOf(result), best.bestPercentage)
    THEN [bestPercentage |-> PercentageOf(result), bestState |-> result.state]
    ELSE best

RECURSIVE BestLoop(_, _, _)
BestLoop(stateResults, i, best) ==
    IF i > Len(stateResults) THEN best
    ELSE BestLoop(stateResults, i + 1, TrackBest(best, stateResults[i]))

-----------------------------------------------------------------------------
(* showCountySearch *)

\* the line printed for one record
CountyRow(vote) ==
    [place     |-> vote.county \o <<COMMA, 32>> \o vote.state,
     candidate |-> vote.candidate,
     voteCount |-> vote.voteCount]

\* a plausible slip in showCountySearch: the county is not upper-cased
RECURSIVE CountyLoop_CaseSensitive(_, _, _, _)
CountyLoop_CaseSensitive(vs, i, countySearch, rows) ==
    IF i > Len(vs) THEN rows
    ELSE CountyLoop_CaseSensitive(vs, i + 1, countySearch,
            IF Find(vs[i].county, countySearch) # npos
            THEN Append(rows, CountyRow(vs[i]))
            ELSE rows)

RECURSIVE CountyLoop(_, _, _, _)
CountyLoop(vs, i, countySearch, rows) ==
    IF i > Len(vs) THEN rows
    ELSE CountyLoop(vs, i + 1, countySearch,
            IF Find(toUpper(vs[i].county), countySearch) # npos
            THEN Append(rows, CountyRow(vs[i]))
            ELSE rows)

-----------------------------------------------------------------------------
(* What a handler writes *)

NoOutput ==
    [count |-> 0, totalVotes |-> 0, summaries |-> <<>>, bars |-> <<>>,
     candidateName |-> EmptyString, stateResults |-> <<>>,
     bestState |-> EmptyString, bestPercentage |-> ZeroPercentage,
     rows |-> <<>>]

showDataOverview(vs) ==
    [NoOutput EXCEPT !.count = Len(vs), !.totalVotes = OverviewLoop(vs, 1, 0)]

showNationalResults(vs, prio) ==
    [NoOutput EXCEPT !.summaries = getCandidateSummaries(vs, prio)]

showStateResults(vs, stateInput, prio) ==
    LET stateSummaries == StateSummaries(vs, stateInput, prio)
    IN  [NoOutput EXCEPT
           !.summaries = stateSummaries,
           !.bars = [k \in 1..Len(stateSummaries) |->
                        Bars(stateSummaries[k].totalVotes)]]

showCandidateResults(vs, searchInput) ==
    LET candidateName == ResolveCandidate(vs, searchInput)
        stateResults  == TallyLoop(vs, 1, candidateName, InitialStateResults)
        best == BestLoop(stateResults, 1,
                    [bestPercentage |-> ZeroPercentage, bestState |-> EmptyString])
    IN  [NoOutput EXCEPT
           !.candidateName = candidateName,
           !.stateResults = stateResults,
           !.bestState = best.bestState,
           !.bestPercentage = best.bestPercentage]

showCountySearch(vs, searchInput) ==
    [NoOutput EXCEPT !.rows = CountyLoop(vs, 1, toUpper(searchInput), <<>>)]

-----------------------------------------------------------------------------
(* Inputs: the lines a file is made of and the lines a user types *)

sOHIO == <<79,72,73,79>>       \* "OHIO"
sOhio == <<79,104,105,111>>    \* "Ohio"
sIOWA == <<73,79,87,65>>       \* "IOWA"
siowa == <<105,111,119,97>>    \* "iowa"
sCook == <<67,111,111,107>>    \* "Cook"
scook == <<99,111,111,107>>    \* "cook"
sPolk == <<80,111,108,107>>    \* "Polk"
sCO   == <<67,79>>             \* "CO"
sok   == <<111,107>>           \* "ok"
sAb   == <<65,98>>             \* "Ab"
sAB   == <<65,66>>             \* "AB"
sab   == <<97,98>>             \* "ab"
sz    == <<122>>               \* "z"
sD    == <<68>>                \* "D"
sR    == <<82>>                \* "R"
s1    == <<49>>                \* "1"
s2    == <<50>>                \* "2"
s1x   == <<49,120>>            \* "1x"
sx    == <<120>>               \* "x"
s225000 == <<50,50,53,48,48,48>> \* "225000"

\* The lines a file may hold:
\*   IOWA,Cook,Ab,D,1     IOWA,Polk,,,2      OHIO,Cook,Ab,D,225000
\*   Ohio,cook,AB,R,1x    IOWA,Cook,Ab,D,x
\* They hold two names that differ by case only, an empty candidate field, a
\* state field that is not upper case, a vote field with text after the
\* digits and a vote field without a digit.
FileLines ==
    { <<sIOWA, sCook, sAb, sD, s1>>,
      <<sIOWA, sPolk, EmptyString, EmptyString, s2>>,
      <<sOHIO, sCook, sAb, sD, s225000>>,
      <<sOhio, scook, sAB, sR, s1x>>,
      <<sIOWA, sCook, sAb, sD, sx>> }

Files == UNION {[1..n -> FileLines] : n \in 0..MaxRecords}

\* no summaries vector is longer than the number of distinct candidate fields
MaxSummaries(ls) == Cardinality({ls[i][3] : i \in 1..Len(ls)})

StateInputs     == {sOhio, siowa}
CandidateInputs == {EmptyString, sab, sz}
CountyInputs    == {EmptyString, sCO, sok, sz}
OtherChoices    == {7}

-----------------------------------------------------------------------------
(* main *)

Init ==
    /\ fileOpened \in BOOLEAN
    /\ lines \in (IF fileOpened THEN Files ELSE {<<>>})
    /\ endsWithNewline \in (IF lines = <<>> THEN {FALSE} ELSE BOOLEAN)
    /\ tiePriority \in Permutations(1..MaxSummaries(lines))
    /\ votes = <<>>
    /\ loaded = <<>>
    /\ pc = "start"
    /\ choice = 0
    /\ arg = EmptyString
    /\ out = NoOutput

\* vector<Votes> votes = readVotesFromFile(filename); the exception stoi
\* throws is caught nowhere and ends the program
ReadVotes ==
    /\ pc = "start"
    /\ LET r == readVotesFromFile(fileOpened, lines, endsWithNewline)
       IN  IF r.thrown
           THEN /\ pc' = "terminated"
                /\ UNCHANGED <<votes, loaded>>
           ELSE /\ pc' = "menu"
                /\ votes' = r.votes
                /\ loaded' = r.votes
    /\ UNCHANGED <<fileOpened, lines, endsWithNewline, tiePriority,
                   choice, arg, out>>

\* case 1
DataOverview ==
    /\ pc = "menu"
    /\ choice' = 1
    /\ arg' = EmptyString
    /\ out' = showDataOverview(votes)
    /\ UNCHANGED <<fileOpened, lines, endsWithNewline, tiePriority,
                   votes, loaded, pc>>

\* case 2
NationalResults ==
    /\ pc = "menu"
    /\ choice' = 2
    /\ arg' = EmptyString
    /\ out' = showNationalResults(votes, tiePriority)
    /\ UNCHANGED <<fileOpened, lines, endsWithNewline, tiePriority,
                   votes, loaded, pc>>

\* case 3
StateResults ==
    /\ pc = "menu"
    /\ \E stateInput \in StateInputs :
        /\ choice' = 3
        /\ arg' = stateInput
        /\ out' = showStateResults(votes, stateInput, tiePriority)
    /\ UNCHANGED <<fileOpened, lines, endsWithNewline, tiePriority,
                   votes, loaded, pc>>

\* case 4
CandidateResults ==
    /\ pc = "menu"
    /\ \E candidateSearch \in CandidateInputs :
        /\ choice' = 4
        /\ arg' = candidateSearch
        /\ out' = showCandidateResults(votes, candidateSearch)
    /\ UNCHANGED <<fileOpened, lines, endsWithNewline, tiePriority,
                   votes, loaded, pc>>

\* a plausible slip in showCountySearch: the store's counties are upper-cased
\* in place instead of a copy
CountySearch_UpperCasesStore ==
    /\ pc = "menu"
    /\ \E countySearch \in CountyInputs :
        /\ choice' = 5
        /\ arg' = countySearch
        /\ out' = showCountySearch(votes, countySearch)
    /\ votes' = [k \in 1..Len(votes) |->
                    [votes[k] EXCEPT !.county = toUpper(@)]]
    /\ UNCHANGED <<fileOpened, lines, endsWithNewline, tiePriority,
                   loaded, pc>>

\* case 5
CountySearch ==
    /\ pc = "menu"
    /\ \E countySearch \in CountyInputs :
        /\ choice' = 5
        /\ arg' = countySearch
        /\ out' = showCountySearch(votes, countySearch)
    /\ UNCHANGED <<fileOpened, lines, endsWithNewline, tiePriority,
                   votes, loaded, pc>>

\* case 6: return 0
Exit ==
    /\ pc = "menu"
    /\ choice' = 6
    /\ arg' = EmptyString
    /\ out' = NoOutput
    /\ pc' = "exited"
    /\ UNCHANGED <<fileOpened, lines, endsWithNewline, tiePriority,
                   votes, loaded>>

\* default: nothing is written and the menu is shown again
OtherChoice ==
    /\ pc = "menu"
    /\ \E c \in OtherChoices :
        /\ choice' = c
        /\ arg' = EmptyString
        /\ out' = NoOutput
    /\ UNCHANGED <<fileOpened, lines, endsWithNewline, tiePriority,
                   votes, loaded, pc>>

Next ==
    \/ ReadVotes
    \/ DataOverview
    \/ NationalResults
    \/ StateResults
    \/ CandidateResults
    \/ CountySearch
    \/ Exit
    \/ OtherChoice

Spec == Init /\ [][Next]_vars

-----------------------------------------------------------------------------
(* Vocabulary of the properties *)

Positions(vs) == 1..Len(vs)

\* the sum of voteCount over the records of vs at the positions in S
RECURSIVE SumVotes(_, _)
SumVotes(vs, S) ==
    IF S = {} THEN 0
    ELSE LET k == CHOOSE x \in S : TRUE
         IN  vs[k].voteCount + SumVotes(vs, S \ {k})

\* the sum of totalVotes over the summaries at the positions in S
RECURSIVE SumTotals(_, _)
SumTotals(s, S) ==
    IF S = {} THEN 0
    ELSE LET k == CHOOSE x \in S : TRUE
         IN  s[k].totalVotes + SumTotals(s, S \ {k})

\* two characters are the same letter in either case, or the same character
SameIgnoringCase(c, d) ==
    \/ c = d
    \/ c \in 97..122 /\ d = c - 32
    \/ d \in 97..122 /\ c = d - 32

EqualIgnoringCase(a, b) ==
    /\ Len(a) = Len(b)
    /\ \A k \in 1..Len(a) : SameIgnoringCase(a[k], b[k])

\* needle is a substring of hay when letter case is ignored
ContainsIgnoringCase(hay, needle) ==
    \E p \in 1..(Len(hay) - Len(needle) + 1) :
        \A k \in 1..Len(needle) : SameIgnoringCase(hay[p + k - 1], needle[k])

\* the subsequence of vs at the positions in S, in the order of vs
RECURSIVE Restrict(_, _, _)
Restrict(vs, S, i) ==
    IF i > Len(vs) THEN <<>>
    ELSE IF i \in S THEN <<vs[i]>> \o Restrict(vs, S, i + 1)
         ELSE Restrict(vs, S, i + 1)

\* the handler has run on the store and the program is back at the menu
Ran(c) == pc = "menu" /\ choice = c

-----------------------------------------------------------------------------
(* C1 *)

\* C1: after National results, the summaries hold exactly one entry per
\* distinct candidate field of the store (compared character for character),
\* the entry's totalVotes is the sum of voteCount over the records with that
\* candidate, and the totals add up to the sum the overview computes.
C1_NationalTotalsExact ==
    Ran(2) =>
        LET s == out.summaries
        IN  /\ \A i, j \in Positions(s) : i # j => s[i].name # s[j].name
            /\ {s[i].name : i \in Positions(s)}
                  = {votes[k].candidate : k \in Positions(votes)}
            /\ \A i \in Positions(s) :
                  s[i].totalVotes =
                      SumVotes(votes, {k \in Positions(votes) :
                                          votes[k].candidate = s[i].name})
            /\ SumTotals(s, Positions(s)) = showDataOverview(votes).totalVotes
            /\ SumTotals(s, Positions(s)) = SumVotes(votes, Positions(votes))

\* two records of one candidate were added up, next to a candidate whose
\* name differs from it by letter case only
C1_Witness ==
    /\ Ran(2)
    /\ \E i, j \in Positions(out.summaries) :
          /\ i # j
          /\ EqualIgnoringCase(out.summaries[i].name, out.summaries[j].name)
          /\ Cardinality({k \in Positions(votes) :
                             votes[k].candidate = out.summaries[i].name}) = 2

-----------------------------------------------------------------------------
(* C2 *)

\* the positions of the store a query with this choice and input aggregates
Aggregated(c, input) ==
    IF c = 2 THEN Positions(votes)
    ELSE {k \in Positions(votes) : votes[k].state = toUpper(input)}

\* the position of the first aggregated record with that candidate
FirstSeen(c, input, name) ==
    LET S == {k \in Aggregated(c, input) : votes[k].candidate = name}
    IN  CHOOSE k \in S : \A h \in S : k <= h

NonIncreasing(s) ==
    \A i, j \in Positions(s) : i < j => s[i].totalVotes >= s[j].totalVotes

\* C2 as claimed: the summaries of National results and of State results
\* are sorted by totalVotes non-increasing, and candidates with equal
\* totalVotes appear in the order in which their names were first
\* encountered in the records.
C2_SortedStable ==
    (Ran(2) \/ Ran(3)) =>
        LET s == out.summaries
        IN  /\ NonIncreasing(s)
            /\ \A i, j \in Positions(s) :
                  (i < j /\ s[i].totalVotes = s[j].totalVotes)
                     => FirstSeen(choice, arg, s[i].name)
                           < FirstSeen(choice, arg, s[j].name)

\* C2 as amended: the summaries of National results and of State results
\* are sorted by totalVotes non-increasing; the order among candidates with
\* equal totalVotes is the one std::sort leaves, which need not be the order
\* of first encounter.
C2_SortedNonIncreasing ==
    (Ran(2) \/ Ran(3)) => NonIncreasing(out.summaries)

\* three candidates, a strict descent, and a tie that is not in the order of
\* first encounter
C2_Witness ==
    /\ Ran(2)
    /\ Len(out.summaries) = 3
    /\ out.summaries[1].totalVotes > out.summaries[2].totalVotes
    /\ out.summaries[2].totalVotes = out.summaries[3].totalVotes
    /\ FirstSeen(2, arg, out.summaries[2].name)
          > FirstSeen(2, arg, out.summaries[3].name)

-----------------------------------------------------------------------------
(* C3 *)

\* the records of the store whose state field is exactly s
WithState(s) == Restrict(votes, {k \in Positions(votes) : votes[k].state = s}, 1)

\* the records of the store whose state field is s when case is ignored
WithStateIgnoringCase(s) ==
    Restrict(votes, {k \in Positions(votes) :
                        EqualIgnoringCase(votes[k].state, s)}, 1)

\* C3 as claimed: State results for input J aggregates exactly the records
\* whose state field equals J when letter case is ignored, whatever the case
\* of the stored field and of the input.
C3_FilterIgnoresCase ==
    Ran(3) =>
        out.summaries = getCandidateSummaries(WithStateIgnoringCase(arg), tiePriority)

\* C3 as amended: State results for input J aggregates exactly the records
\* whose stored state field equals the upper-cased input, character for
\* character (the letter case of the input is ignored, that of the stored
\* field is not), and its summaries are those getCandidateSummaries gives
\* for only these records.
C3_FilterUpperCasedInput ==
    Ran(3) =>
        out.summaries = getCandidateSummaries(WithState(toUpper(arg)), tiePriority)

\* the user typed "Ohio"; the store holds a record of OHIO, which is
\* aggregated, and a record of Ohio, which is not
C3_Witness ==
    /\ Ran(3)
    /\ arg = sOhio
    /\ \E k \in Positions(votes) : votes[k].state = sOHIO
    /\ \E k \in Positions(votes) : votes[k].state = sOhio
    /\ Len(out.summaries) = 1
    /\ Len(votes) = 3

-----------------------------------------------------------------------------
(* C4 *)

\* some record's county / candidate contains the term, case ignored
CountyMatches(term) ==
    \E k \in Positions(votes) : ContainsIgnoringCase(votes[k].county, term)
CandidateMatches(term) ==
    \E k \in Positions(votes) : ContainsIgnoringCase(votes[k].candidate, term)

\* C4 as claimed: a search term that is empty or matches no record gives no
\* row in County search, and in Candidate results the empty candidate name
\* with candidateVotes 0 in every state; never an error.
C4_EmptyOrNoMatchGivesNothing ==
    /\ (choice \in {4, 5}) => pc = "menu"
    /\ (Ran(5) /\ (arg = EmptyString \/ ~CountyMatches(arg)))
          => out.rows = <<>>
    /\ (Ran(4) /\ (arg = EmptyString \/ ~CandidateMatches(arg)))
          => /\ out.candidateName = EmptyString
             /\ \A i \in 1..NUM_STATES : out.stateResults[i].candidateVotes = 0

\* C4 as amended: no search term is an error.  A non-empty term that matches
\* no record gives no row in County search; in Candidate results it gives
\* the empty candidate name, and the candidateVotes of a state are then the
\* votes of its records whose candidate field is empty (0 when it has none).
\* The empty term matches every record: County search gives one row per
\* record, and Candidate results resolve to the candidate of the first
\* record (the empty name for an empty store).
C4_NoMatchGivesNothing ==
    /\ (choice \in {4, 5}) => pc = "menu"
    /\ (Ran(5) /\ arg # EmptyString /\ ~CountyMatches(arg))
          => out.rows = <<>>
    /\ (Ran(5) /\ arg = EmptyString)
          => out.rows = [k \in Positions(votes) |-> CountyRow(votes[k])]
    /\ (Ran(4) /\ arg # EmptyString /\ ~CandidateMatches(arg))
          => /\ out.candidateName = EmptyString
             /\ \A i \in 1..NUM_STATES :
                   out.stateResults[i].candidateVotes =
                       SumVotes(votes, {k \in Positions(votes) :
                                           /\ votes[k].state = STATES[i]
                                           /\ votes[k].candidate = EmptyString})
    /\ (Ran(4) /\ arg = EmptyString)
          => out.candidateName =
                IF votes = <<>> THEN EmptyString ELSE votes[1].candidate

\* a term that matches no candidate, in a store that holds a record with an
\* empty candidate field next to records of a named candidate
C4_Witness ==
    /\ Ran(4)
    /\ arg = sz
    /\ out.candidateName = EmptyString
    /\ \E i \in 1..NUM_STATES :
          /\ out.stateResults[i].candidateVotes > 0
          /\ out.stateResults[i].totalVotes > out.stateResults[i].candidateVotes

-----------------------------------------------------------------------------
(* C5 *)

\* C5 as claimed: whatever the term resolved to, also the empty name of a
\* term that matched no record, searching with that name resolves to it.
C5_ResolutionIdempotent ==
    Ran(4) => ResolveCandidate(votes, out.candidateName) = out.candidateName

\* C5 as amended: when some record matches the term, searching with the
\* resolved name resolves to the same name.  When no record matches, the
\* resolved name is empty, and searching with the empty term resolves to the
\* candidate of the first record of the store (to the empty name only for an
\* empty store or an empty first candidate).
C5_IdempotentWhenMatched ==
    Ran(4) =>
        IF CandidateMatches(arg)
        THEN ResolveCandidate(votes, out.candidateName) = out.candidateName
        ELSE /\ out.candidateName = EmptyString
             /\ ResolveCandidate(votes, EmptyString) =
                   IF votes = <<>> THEN EmptyString ELSE votes[1].candidate

\* "ab" resolved to AB: the first record does not match, the second is AB
\* and a later one is Ab, which the resolved name matches as well
C5_Witness ==
    /\ Ran(4)
    /\ arg = sab
    /\ Len(votes) = 3
    /\ votes[1].candidate = EmptyString
    /\ votes[2].candidate = sAB
    /\ votes[3].candidate = sAb
    /\ out.candidateName = sAB

-----------------------------------------------------------------------------
(* C6 *)

\* the rows of the records at the positions in S, in the order of the store
RowsOf(S) ==
    LET sel == Restrict(votes, S, 1)
    IN  [k \in 1..Len(sel) |-> CountyRow(sel[k])]

\* C6: County search with term T writes one row per record whose county
\* contains T as a substring when letter case is ignored, in the order of
\* the store, nothing left out, repeated or added up.
C6_CountySearchExact ==
    Ran(5) =>
        out.rows = RowsOf({k \in Positions(votes) :
                              ContainsIgnoringCase(votes[k].county, arg)})

\* "ok" found inside Cook and cook, not in Polk: two equal records give two
\* rows and the third record gives none
C6_Witness ==
    /\ Ran(5)
    /\ arg = sok
    /\ Len(votes) = 3
    /\ Len(out.rows) = 2
    /\ out.rows[1] = out.rows[2]

-----------------------------------------------------------------------------
(* C7 *)

\* C7: the table of Candidate results has the 51 states of STATES in that
\* order; a state's totalVotes is the sum of voteCount over the records
\* whose state field is exactly its name, its candidateVotes the sum over
\* those of them whose candidate is exactly the resolved name.  (So a record
\* of no listed state counts nowhere and a state without record has 0, 0.)
C7_StateTableExact ==
    Ran(4) =>
        /\ Len(out.stateResults) = NUM_STATES
        /\ \A i \in 1..NUM_STATES :
              LET inState == {k \in Positions(votes) : votes[k].state = STATES[i]}
              IN  /\ out.stateResults[i].state = STATES[i]
                  /\ out.stateResults[i].totalVotes = SumVotes(votes, inState)
                  /\ out.stateResults[i].candidateVotes =
                        SumVotes(votes, {k \in inState :
                                    votes[k].candidate = out.candidateName})

\* the table for Ab over a store with a record of IOWA for Ab, one of IOWA
\* for another candidate and one of "Ohio", which is no listed state
C7_Witness ==
    /\ Ran(4)
    /\ out.candidateName = sAb
    /\ Len(votes) = 3
    /\ \E k \in Positions(votes) : votes[k].state = sOhio
    /\ \E i \in 1..NUM_STATES :
          /\ out.stateResults[i].candidateVotes > 0
          /\ out.stateResults[i].totalVotes > out.stateResults[i].candidateVotes
    /\ \A i \in 1..NUM_STATES :
          STATES[i] # sIOWA => out.stateResults[i].totalVotes = 0

-----------------------------------------------------------------------------
(* C8 *)

\* what the handler of a menu choice writes for a store and an input line
HandlerOutput(vs, c, input, prio) ==
    CASE c = 1 -> showDataOverview(vs)
      [] c = 2 -> showNationalResults(vs, prio)
      [] c = 3 -> showStateResults(vs, input, prio)
      [] c = 4 -> showCandidateResults(vs, input)
      [] c = 5 -> showCountySearch(vs, input)
      [] OTHER -> NoOutput

\* C8: once loaded, the store is the loaded store after any sequence of
\* menu choices, and what a handler writes is what it writes for the loaded
\* store and its input, whatever ran before it.
C8_QueriesLeaveStore ==
    (pc \in {"menu", "exited"}) =>
        /\ votes = loaded
        /\ out = HandlerOutput(loaded, choice, arg, tiePriority)

\* a handler has run on a store of three records
C8_Witness ==
    /\ Ran(5)
    /\ arg = sCO
    /\ Len(loaded) = 3
    /\ Len(out.rows) = 2

-----------------------------------------------------------------------------
(* C9 *)

\* the vote field of the line parses as an int: stoi does not throw
Parses(line) == ~Stoi(line[5]).thrown

-----------------------------------------------------------------------------
(* C10 *)

\* the percentage of a row, 100 * candidateVotes / totalVotes as a fraction,
\* 0 when totalVotes is 0 (vote counts are not negative)
RowPercentage(row) ==
    IF row.totalVotes = 0 THEN [num |-> 0, den |-> 1]
    ELSE Fraction(100 * row.candidateVotes, row.totalVotes)

FractionLess(p, q)  == p.num * q.den < q.num * p.den
FractionEqual(p, q) == p.num * q.den = q.num * p.den

\* C10: the best state of Candidate results is the first state, in the
\* order of STATES, whose percentage is the largest of the 51 (so the first
\* of several states with the largest percentage); when no state has a
\* percentage above 0 the best state is empty and the best percentage 0.
C10_BestIsFirstMaximum ==
    Ran(4) =>
        LET t == out.stateResults
            largest == {i \in 1..NUM_STATES :
                           \A j \in 1..NUM_STATES :
                               ~FractionLess(RowPercentage(t[i]), RowPercentage(t[j]))}
            first == CHOOSE i \in largest : \A j \in largest : i <= j
        IN  IF FractionLess([num |-> 0, den |-> 1], RowPercentage(t[first]))
            THEN /\ out.bestState = STATES[first]
                 /\ FractionEqual(out.bestPercentage, RowPercentage(t[first]))
            ELSE /\ out.bestState = EmptyString
                 /\ out.bestPercentage = [num |-> 0, den |-> 1]

\* two states with the same largest percentage: the earlier one is the best
\* state
C10_Witness ==
    /\ Ran(4)
    /\ \E i, j \in 1..NUM_STATES :
          /\ i < j
          /\ out.stateResults[i].totalVotes > 0
          /\ out.stateResults[j].totalVotes > 0
          /\ out.stateResults[i].candidateVotes > 0
          /\ FractionEqual(RowPercentage(out.stateResults[i]),
                           RowPercentage(out.stateResults[j]))
          /\ out.bestState = STATES[i]

====
